---- MODULE Spec2Model ----
(***************************************************************************)
(* Model of static/js/location-input.js: the location-capture page of the  *)
(* rooftop rain-water-harvesting form.  One action per event handler,      *)
(* timer callback or network response.                                     *)
(*                                                                         *)
(* Numbers: a coordinate is an integer number of micro-degrees (1e-6       *)
(* degree), one decimal more than the five that toFixed(5) keeps, so that  *)
(* rounding is visible.  Strings that are parsed or formatted (the         *)
(* latitude and longitude fields) are sequences of one-character strings;  *)
(* strings that are only stored, compared or measured are TLA+ strings.    *)
(* Time advances in steps of 100 ms.                                       *)
(***************************************************************************)
EXTENDS Integers, Sequences, FiniteSets, TLC

VARIABLES
    marker,          \* marker.getLngLat(): [lat, lng] in micro-degrees
    latitude,        \* #latitude.value  (sequence of characters)
    longitude,       \* #longitude.value (sequence of characters)
    address,         \* #address.value
    pincode,         \* #pincode.value
    state,           \* #state.value (a <select>)
    district,        \* #district.value
    town,            \* #town.value
    geoTimeout,      \* `timeout` of debouncedUpdateFromMarker
    searchTimeout,   \* `timeout` of debouncedAddressSearch
    reverseReqs,     \* reverse-geocoding fetches in flight, in issue order
    searchReqs,      \* forward-search fetches in flight, in issue order
    suggestions,     \* children of #suggestions
    suggestionsHidden, \* #suggestions has class 'hidden'
    geolocating,     \* getCurrentPosition calls not yet answered
    fullName,        \* #fullName.value
    rooftopArea,     \* #rooftopArea.value
    openSpaceArea,   \* #openSpaceArea.value
    householdSize,   \* #householdSize.value (sequence of characters)
    propertyType,    \* value of the checked propertyType radio ("" when none is)
    roofType,        \* value of the checked roofType radio ("" when none is)
    waterSources,    \* values of the checked existing_water_sources boxes
    budgetRange,     \* #budgetRange.value
    intendedUse,     \* #intendedUse.value
    locationActive,  \* #locationSection has class 'active'
    dataActive,      \* #dataSection has class 'active'
    submitBtn,       \* #submitData: [disabled, html]
    posts,           \* forms submitted to /submit_form
    alerts,          \* alert() messages shown by the last handler run
    event,           \* the handler that ran last, with its input
    sinceChange,     \* 100 ms steps since the last Coordinate change (capped)
    burstCalls,      \* reverse-geocoding calls issued in the current burst (capped)
    inputBurst,      \* the current run of #address input events, observed
    hideWatch,       \* the searches older than the last hiding of the list, observed
    dataConsent,     \* consent page: #dataConsent, whether it exists and is checked
    termsConsent,    \* consent page: #termsConsent, whether it exists and is checked
    proceedBtn,      \* consent page: #proceedBtn, disabled and dimmed (opacity-50)
    consentReady     \* consent page: its DOMContentLoaded handler has run

coordVars  == <<marker, latitude, longitude>>
addrVars   == <<address, pincode, state, district, town>>
timerVars  == <<geoTimeout, searchTimeout>>
netVars    == <<reverseReqs, searchReqs, geolocating>>
listVars   == <<suggestions, suggestionsHidden>>
detailVars == <<householdSize, propertyType, roofType, waterSources, budgetRange,
                intendedUse>>
formVars   == <<fullName, rooftopArea, openSpaceArea, detailVars>>
navVars    == <<locationActive, dataActive>>
submitVars == <<submitBtn, posts>>
burstVars  == <<sinceChange, burstCalls, inputBurst, hideWatch>>
consentVars == <<dataConsent, termsConsent, proceedBtn, consentReady>>
locationVars == <<coordVars, addrVars, timerVars, netVars, listVars, formVars, navVars,
                  submitVars, burstVars>>
vars == <<locationVars, alerts, event, consentVars>>

----------------------------------------------------------------------------
(* Bounds of the model *)

MaxBurstInputs == 2   \* input events counted in one run of #address inputs

MaxInFlight == 2      \* fetches of one kind in flight at once
MaxGeolocating == 1   \* unanswered getCurrentPosition calls
MaxBurstCalls == 2    \* the count of calls in a burst stops here

(* Program constants *)

GeoDelay == 5         \* debounce(updateFromMarker, 500), in 100 ms steps
SearchDelay == 3      \* debounce(..., 300), in 100 ms steps
MinQueryLen == 3      \* input.length < 3
FractionDigits == 5   \* toFixed(5)
MicroDigits == FractionDigits + 1   \* decimals the model's numbers carry

----------------------------------------------------------------------------
(* Numbers and their text *)

\* A JavaScript number: NaN, or a count of micro-units.
NaN == [nan |-> TRUE, v |-> 0]

Num(x) == [nan |-> FALSE, v |-> x]

Digits == <<"0", "1", "2", "3", "4", "5", "6", "7", "8", "9">>

IsDigit(c) == c \in {"0", "1", "2", "3", "4", "5", "6", "7", "8", "9"}

DigitVal(c) == CASE c = "0" -> 0 [] c = "1" -> 1 [] c = "2" -> 2 [] c = "3" -> 3
                 [] c = "4" -> 4 [] c = "5" -> 5 [] c = "6" -> 6 [] c = "7" -> 7
                 [] c = "8" -> 8 [] c = "9" -> 9

RECURSIVE Pow10(_)
Pow10(n) == IF n = 0 THEN 1 ELSE 10 * Pow10(n - 1)

Abs(x) == IF x < 0 THEN -x ELSE x

\* The decimal digits of a natural number, most significant first.
RECURSIVE NatDigits(_)
NatDigits(n) == IF n < 10 THEN <<Digits[n + 1]>>
                ELSE Append(NatDigits(n \div 10), Digits[(n % 10) + 1])

RECURSIVE PadLeft(_, _)
PadLeft(s, k) == IF Len(s) >= k THEN s ELSE PadLeft(<<"0">> \o s, k)

\* The digits m with a point before the last FractionDigits of them.
PointBeforeFraction(sign, m) ==
    sign \o SubSeq(m, 1, Len(m) - FractionDigits) \o <<".">>
         \o SubSeq(m, Len(m) - FractionDigits + 1, Len(m))

\* The integer nearest to x / h, the larger one on a tie (x >= 0).
RoundHalfUp(x, h) == (2 * x + h) \div (2 * h)

\* Number.prototype.toFixed(5) of x micro-units: the sign first, then n, the
\* integer nearest to |x| * 10^5 (the larger one on a tie), padded to six
\* digits, with a point before the last five.
toFixed5(x) ==
    PointBeforeFraction(
        IF x < 0 THEN <<"-">> ELSE <<>>,
        PadLeft(NatDigits(RoundHalfUp(Abs(x), Pow10(MicroDigits - FractionDigits))),
                FractionDigits + 1))

\* The number of digits of s from position i on, up to the first non-digit.
RECURSIVE DigitRun(_, _)
DigitRun(s, i) == IF i > Len(s) \/ ~IsDigit(s[i]) THEN 0 ELSE 1 + DigitRun(s, i + 1)

\* The first position of s from i on that holds no blank.
RECURSIVE SkipSpaces(_, _)
SkipSpaces(s, i) == IF i <= Len(s) /\ s[i] = " " THEN SkipSpaces(s, i + 1) ELSE i

\* The n digits of s from position i on, read as an integer.
RECURSIVE DigitsValue(_, _, _)
DigitsValue(s, i, n) == IF n = 0 THEN 0
                        ELSE DigitsValue(s, i, n - 1) * 10 + DigitVal(s[i + n - 1])

\* The value, in units of 10^-d, of nf digits after the point at position
\* i - 1: the first d count, later ones are below the model's resolution.
FractionValue(s, i, nf, d) ==
    IF nf <= d THEN DigitsValue(s, i, nf) * Pow10(d - nf)
    ELSE DigitsValue(s, i, d)

\* s read from position i: ni digits, then nf digits after a point.
ParsedNumber(s, i, sign, ni, nf, d) ==
    IF ni + nf = 0 THEN NaN
    ELSE Num(sign * (DigitsValue(s, i, ni) * Pow10(d)
                       + FractionValue(s, i + ni + 1, nf, d)))

ParseFraction(s, i, sign, ni, d) ==
    IF i + ni <= Len(s) /\ s[i + ni] = "."
    THEN ParsedNumber(s, i, sign, ni, DigitRun(s, i + ni + 1), d)
    ELSE ParsedNumber(s, i, sign, ni, 0, d)

ParseSigned(s, i, d) ==
    IF i <= Len(s) /\ s[i] = "-" THEN ParseFraction(s, i + 1, -1, DigitRun(s, i + 1), d)
    ELSE IF i <= Len(s) /\ s[i] = "+" THEN ParseFraction(s, i + 1, 1, DigitRun(s, i + 1), d)
    ELSE ParseFraction(s, i, 1, DigitRun(s, i), d)

\* parseFloat(s) in units of 10^-d.
parseFloatIn(s, d) == ParseSigned(s, SkipSpaces(s, 1), d)

\* parseFloat(s): leading blanks are skipped, then the longest prefix that
\* is a decimal literal (sign, digits, point, digits) is read; NaN when that
\* prefix has no digit.  Exponents and "Infinity" are not in the model's texts.
parseFloat(s) == parseFloatIn(s, MicroDigits)

isNaN(x) == x.nan

----------------------------------------------------------------------------
(* Double-precision products.  A double is m * 2^-k with m of at most 53    *)
(* bits; integers beyond 32 bits are kept as sequences of bits, the most    *)
(* significant first, without leading zeros (zero is the empty sequence).   *)

TrimBits(x) ==
    IF \A i \in 1..Len(x) : x[i] = 0 THEN <<>>
    ELSE SubSeq(x, CHOOSE i \in 1..Len(x) : x[i] = 1 /\ \A j \in 1..(i - 1) : x[j] = 0,
                Len(x))

RECURSIVE IntBits(_)
IntBits(n) == IF n = 0 THEN <<>> ELSE Append(IntBits(n \div 2), n % 2)

\* n zeros (none for n <= 0).
ZeroBits(n) == IF n > 0 THEN [i \in 1..n |-> 0] ELSE <<>>

\* A carry enters bit i of a + b when some lower bit j generates one and
\* every bit between them passes it on.
CarryInto(a, b, i) ==
    \E j \in (i + 1)..Len(a) :
        /\ a[j] + b[j] = 2
        /\ \A k \in (i + 1)..(j - 1) : a[k] + b[k] >= 1

\* a + b for a and b of one length, with room for the last carry.
AddPadded(a, b) ==
    TrimBits([i \in 1..Len(a) |->
                 (a[i] + b[i] + (IF CarryInto(a, b, i) THEN 1 ELSE 0)) % 2])

\* (Operands are bound to their values before they are used.)
AddBits(x, y) ==
    CHOOSE r \in { AddPadded(ZeroBits(Len(b) - Len(a)) \o <<0>> \o a,
                              ZeroBits(Len(a) - Len(b)) \o <<0>> \o b) :
                      a \in {x}, b \in {y} } : TRUE

\* x * n by doubling, for a sequence x and an integer n.
RECURSIVE MulFrom(_, _)
MulFrom(x, n) ==
    IF n = 0 \/ x = <<>> THEN <<>>
    ELSE CHOOSE r \in { IF n % 2 = 1 THEN AddBits(Append(h, 0), x)
                        ELSE TrimBits(Append(h, 0)) :
                          h \in {MulFrom(x, n \div 2)} } : TRUE

MulBits(x, n) == CHOOSE r \in { MulFrom(a, k) : a \in {x}, k \in {n} } : TRUE

\* x >= y
GeqBits(x, y) ==
    IF Len(x) # Len(y) THEN Len(x) > Len(y)
    ELSE \/ x = y
         \/ \E i \in 1..Len(x) : /\ x[i] > y[i]
                                 /\ \A j \in 1..(i - 1) : x[j] = y[j]

\* x rounded to 53 significant bits, to the nearest, ties to even.
RoundBits(head, rest) ==
    LET half == <<1>> \o ZeroBits(Len(rest) - 1)
        up   == \/ rest # half /\ GeqBits(TrimBits(rest), half)
                \/ rest = half /\ head[53] = 1
    IN  IF up THEN AddBits(head, <<1>>) \o ZeroBits(Len(rest))
        ELSE head \o ZeroBits(Len(rest))

RoundTo53(x) ==
    CHOOSE r \in { IF Len(v) <= 53 THEN v
                   ELSE RoundBits(SubSeq(v, 1, 53), SubSeq(v, 54, Len(v))) :
                     v \in {x} } : TRUE

\* The bits of a number written in hexadecimal digits (as numbers 0..15).
HexBits(h) ==
    TrimBits([i \in 1..(4 * Len(h)) |->
                 (h[((i - 1) \div 4) + 1] \div (2 ^ (3 - ((i - 1) % 4)))) % 2])

----------------------------------------------------------------------------
(* submitData, line 412: the rooftop area in square metres *)

\* Areas are read in hundredths of a square foot.
AreaDigits == 2

\* 0.092903 in millionths.
Factor == 92903

FactorDigits == 6

\* The double nearest to 0.092903: 0x1.7c87db2b34613p-4, that is m * 2^-k.
FactorDouble ==
    [m |-> HexBits(<<1, 7, 12, 8, 7, 13, 11, 2, 11, 3, 4, 6, 1, 3>>), k |-> 56]

\* The digits m with a point before the last d of them.
PointBefore(sign, m, d) ==
    sign \o SubSeq(m, 1, Len(m) - d) \o <<".">> \o SubSeq(m, Len(m) - d + 1, Len(m))

\* a * Factor for a in hundredths, as hundredths and a remainder in
\* units of 10^-8, computed in two parts to stay within 32 bits.
ExactProduct(a) ==
    LET high == (a \div 1000) * Factor
        low  == (a % 1000) * Factor
        r    == (high % 1000) * 1000 + low
        unit == Pow10(FactorDigits)
    IN  [n |-> high \div 1000 + r \div unit, rem |-> r % unit]

\* The double product a * 0.092903 for a whole number a of square feet, in
\* units of 2^-k: the exact product of a and the factor's double, rounded
\* to 53 bits.
DoubleProduct(a) ==
    CHOOSE r \in { RoundTo53(p) : p \in {MulBits(FactorDouble.m, a)} } : TRUE

\* Number.prototype.toFixed(2) picks n + 1 over n when x * 100 - n >= 1/2.
\* x * 100 is 100 * p / 2^k for the double product p.
DoubleAtLeastHalf(p, n) ==
    \E v \in {p} :
      \E a \in {MulBits(v, 200)}, b \in {IntBits(2 * n + 1) \o ZeroBits(FactorDouble.k)} :
        GeqBits(a, b)

\* (|a| * 0.092903).toFixed(2) in hundredths, for |a| in hundredths of a
\* square foot.  The double product is within 10^-9 of the exact one, so it
\* rounds as the exact one does unless the exact one is halfway between two
\* hundredths; there the double product itself decides.
Hundredths(a) ==
    LET e    == ExactProduct(a)
        half == Pow10(FactorDigits) \div 2
    IN  IF e.rem > half THEN e.n + 1
        ELSE IF e.rem < half THEN e.n
        ELSE IF DoubleAtLeastHalf(DoubleProduct(a \div Pow10(AreaDigits)), e.n)
             THEN e.n + 1 ELSE e.n

\* (parseFloat(rooftopArea || 0) * 0.092903).toFixed(2)
rooftop_area(text) ==
    LET x == parseFloatIn(IF text = <<>> THEN <<"0">> ELSE text, AreaDigits)
    IN  IF x.nan THEN <<"N", "a", "N">>
        ELSE PointBefore(IF x.v < 0 THEN <<"-">> ELSE <<>>,
                         PadLeft(NatDigits(Hundredths(Abs(x.v))), 3), 2)

----------------------------------------------------------------------------
(* The inputs of the model *)

\* new maplibregl.Marker(...).setLngLat([78.9629, 20.5937])
IndiaCenter == [lat |-> 20593700, lng |-> 78962900]

PointA == [lat |-> 12345678, lng |-> 77123456]

PointB == [lat |-> -33000004, lng |-> -70500000]

ClickPoints == {PointB}

DragPoints == {PointA}

GeoPositions == {PointA}

\* Texts a visitor types: PointA, and texts that are no coordinate.
TextA == [lat |-> <<"1", "2", ".", "3", "4", "5", "6", "7", "8">>,
          lng |-> <<"7", "7", ".", "1", "2", "3", "4", "5", "6">>]

LatTexts == { <<>>, TextA.lat, <<"9", "1">>, <<"x">> }

LngTexts == { <<>>, TextA.lng, <<"1", "8", "1">> }

AddressTexts == {"pu", "pune", "zzzz"}

\* The options the page adds to the state dropdown.
indianStates == {
    "Andaman and Nicobar Islands", "Andhra Pradesh", "Arunachal Pradesh", "Assam",
    "Bihar", "Chandigarh", "Chhattisgarh",
    "Dadra and Nagar Haveli and Daman and Diu", "Delhi", "Goa", "Gujarat",
    "Haryana", "Himachal Pradesh", "Jammu and Kashmir", "Jharkhand", "Karnataka",
    "Kerala", "Ladakh", "Lakshadweep", "Madhya Pradesh", "Maharashtra", "Manipur",
    "Meghalaya", "Mizoram", "Nagaland", "Odisha", "Puducherry", "Punjab",
    "Rajasthan", "Sikkim", "Tamil Nadu", "Telangana", "Tripura", "Uttar Pradesh",
    "Uttarakhand", "West Bengal" }

----------------------------------------------------------------------------
(* The geocoding service.  A feature carries place_name, center and the     *)
(* texts of its context entries ("" for an entry the context lacks).        *)

Bengaluru == [place_name |-> "MG Road, Bengaluru", postcode |-> "560001",
              district |-> "Bengaluru Urban", place |-> "Bengaluru",
              region |-> "Karnataka", center |-> PointA]

Santiago == [place_name |-> "Santiago", postcode |-> "",
             district |-> "Santiago", place |-> "Santiago",
             region |-> "Santiago Metropolitan", center |-> PointB]

Nagpur == [place_name |-> "Nagpur", postcode |-> "440001",
           district |-> "Nagpur", place |-> "",
           region |-> "Maharashtra", center |-> IndiaCenter]

\* data.features of a successful reverse lookup of the coordinates in the URL.
ReverseFeatures(req) ==
    LET lat == parseFloat(req.lat).v
    IN  IF lat < 0 THEN <<Santiago>>
        ELSE IF lat < 15000000 THEN <<Bengaluru, Nagpur>>
        ELSE <<Nagpur>>

\* data.features of a successful forward search.
SearchFeatures(input) ==
    IF input = "pune" THEN <<Santiago, Bengaluru>> ELSE <<>>

\* How a fetch can end: it rejects or its body does not parse ("error"), the
\* body has no features member ("missing"), features is empty ("empty"), or
\* features holds results ("ok").
Outcomes == {"error", "missing", "empty", "ok"}

ReverseData(req, outcome) ==
    IF outcome = "ok" THEN [features |-> ReverseFeatures(req), has |-> TRUE]
    ELSE IF outcome = "empty" THEN [features |-> <<>>, has |-> TRUE]
    ELSE [features |-> <<>>, has |-> FALSE]

\* limit=5 of the request, line 225
SuggestionLimit == 5

\* The features of a body that holds more than the request's limit asked for.
OverLimitFeatures == <<Santiago, Bengaluru, Nagpur, Bengaluru, Santiago, Nagpur>>

\* "over": the body holds more features than the limit of the request.
SearchData(input, outcome) ==
    IF outcome = "ok" THEN [features |-> SearchFeatures(input), has |-> TRUE]
    ELSE IF outcome = "over" THEN [features |-> OverLimitFeatures, has |-> TRUE]
    ELSE IF outcome = "empty" THEN [features |-> <<>>, has |-> TRUE]
    ELSE [features |-> <<>>, has |-> FALSE]

----------------------------------------------------------------------------
(* Helpers of the handlers *)

NoTimer == [set |-> FALSE, left |-> 0, arg |-> <<>>]

debounceEarly(arg, delay) == [set |-> TRUE, left |-> delay - 1, arg |-> arg]

\* debounce: clearTimeout(timeout); timeout = setTimeout(..., delay)
debounce(arg, delay) == [set |-> TRUE, left |-> delay, arg |-> arg]

TimerDue(t) == t.set /\ t.left = 0

TimerTick(t) == IF t.set THEN [t EXCEPT !.left = t.left - 1] ELSE t

\* A <select> takes a value only if one of its options has it.
SelectValue(options, v) == IF v \in options THEN v ELSE ""

CoordTextsSwapped(lngLat) ==
    [lat |-> toFixed5(lngLat.lng), lng |-> toFixed5(lngLat.lat)]

\* updateFromMarker, lines 147-150: the texts written to the two fields.
CoordTexts(lngLat) == [lat |-> toFixed5(lngLat.lat), lng |-> toFixed5(lngLat.lng)]

AddressAfterClearing(data, old) ==
    IF data.has /\ Len(data.features) > 0
    THEN LET topResult == data.features[1]
         IN  [address  |-> topResult.place_name,
              pincode  |-> topResult.postcode,
              state    |-> SelectValue(indianStates, topResult.region),
              district |-> topResult.district,
              town     |-> topResult.place]
    ELSE [address |-> "", pincode |-> "", state |-> "", district |-> "", town |-> ""]

\* updateFromMarker, lines 157-171: the address fields after the response.
AddressAfter(data, old) ==
    IF data.has /\ Len(data.features) > 0
    THEN LET topResult == data.features[1]
         IN  [address  |-> topResult.place_name,
              pincode  |-> topResult.postcode,
              state    |-> SelectValue(indianStates, topResult.region),
              district |-> topResult.district,
              town     |-> topResult.place]
    ELSE old

AddressNow == [address |-> address, pincode |-> pincode, state |-> state,
               district |-> district, town |-> town]

ValidPairLatitudeOnly(lat, lng) ==
    /\ ~isNaN(lat) /\ ~isNaN(lng)
    /\ lat.v >= -90000000 /\ lat.v <= 90000000

\* updateMarkerFromInputs, line 187
ValidPair(lat, lng) ==
    /\ ~isNaN(lat) /\ ~isNaN(lng)
    /\ lat.v >= -90000000 /\ lat.v <= 90000000
    /\ lng.v >= -180000000 /\ lng.v <= 180000000

RemoveAt(q, i) == SubSeq(q, 1, i - 1) \o SubSeq(q, i + 1, Len(q))

Min(a, b) == IF a < b THEN a ELSE b

\* updateFromMarker up to its first await: the fields are written and the
\* reverse-geocoding fetch is issued.
UpdateFromMarker(lngLat) ==
    /\ Len(reverseReqs) < MaxInFlight
    /\ \E req \in {CoordTexts(lngLat)} :
          /\ latitude' = req.lat
          /\ longitude' = req.lng
          /\ reverseReqs' = Append(reverseReqs, req)

----------------------------------------------------------------------------
(* The consent page *)

NoElement == [present |-> FALSE, checked |-> FALSE]

NoButton == [present |-> FALSE, disabled |-> FALSE, dim |-> FALSE]

\* The consent page is not the open document.
ConsentClosed ==
    /\ dataConsent = NoElement /\ termsConsent = NoElement
    /\ proceedBtn = NoButton
    /\ consentReady = FALSE

validateConsentEither(data, terms, btn) ==
    IF ~data.present \/ ~terms.present \/ ~btn.present THEN btn
    ELSE IF data.checked \/ terms.checked
    THEN [btn EXCEPT !.disabled = FALSE, !.dim = FALSE]
    ELSE [btn EXCEPT !.disabled = TRUE, !.dim = TRUE]

\* validateConsent, lines 108-121: the button after the call.
validateConsent(data, terms, btn) ==
    IF ~data.present \/ ~terms.present \/ ~btn.present THEN btn
    ELSE IF data.checked /\ terms.checked
    THEN [btn EXCEPT !.disabled = FALSE, !.dim = FALSE]
    ELSE [btn EXCEPT !.disabled = TRUE, !.dim = TRUE]

\* DOMContentLoaded, lines 131-141: the listeners are attached and the button
\* is given its state.
ConsentLoaded ==
    /\ ~consentReady
    /\ consentReady' = TRUE
    /\ proceedBtn' = validateConsent(dataConsent, termsConsent, proceedBtn)
    /\ alerts' = <<>>
    /\ event' = [op |-> "DOMContentLoaded"]
    /\ UNCHANGED <<locationVars, dataConsent, termsConsent>>

\* The user toggles #dataConsent; its 'change' listener (line 136) runs once
\* it is attached.
DataConsentChange ==
    /\ dataConsent.present
    /\ dataConsent' = [dataConsent EXCEPT !.checked = ~dataConsent.checked]
    /\ proceedBtn' = IF consentReady
                     THEN validateConsent(dataConsent', termsConsent, proceedBtn)
                     ELSE proceedBtn
    /\ alerts' = <<>>
    /\ event' = [op |-> "DataConsentChange"]
    /\ UNCHANGED <<locationVars, termsConsent, consentReady>>

\* The user toggles #termsConsent; its 'change' listener is that of line 137.
TermsConsentChange ==
    /\ termsConsent.present
    /\ termsConsent' = [termsConsent EXCEPT !.checked = ~termsConsent.checked]
    /\ proceedBtn' = IF consentReady
                     THEN validateConsent(dataConsent, termsConsent', proceedBtn)
                     ELSE proceedBtn
    /\ alerts' = <<>>
    /\ event' = [op |-> "TermsConsentChange"]
    /\ UNCHANGED <<locationVars, dataConsent, consentReady>>

----------------------------------------------------------------------------
(* The page after DOMContentLoaded *)

Init ==
    /\ marker = IndiaCenter
    /\ latitude = <<>> /\ longitude = <<>>
    /\ address = "" /\ pincode = "" /\ state = "" /\ district = "" /\ town = ""
    /\ geoTimeout = NoTimer /\ searchTimeout = NoTimer
    /\ reverseReqs = <<>> /\ searchReqs = <<>> /\ geolocating = 0
    /\ suggestions = <<>> /\ suggestionsHidden = TRUE
    /\ fullName = "" /\ rooftopArea = <<>> /\ openSpaceArea = ""
    /\ householdSize = <<>> /\ propertyType = "" /\ roofType = ""
    /\ waterSources = {} /\ budgetRange = "" /\ intendedUse = ""
    /\ locationActive = TRUE /\ dataActive = FALSE
    /\ submitBtn = [disabled |-> FALSE, html |-> "Submit"]
    /\ posts = <<>>
    /\ alerts = <<>>
    /\ event = [op |-> "load"]
    /\ sinceChange = GeoDelay
    /\ burstCalls = 0
    /\ inputBurst = [since |-> SearchDelay, inputs |-> 0, runs |-> 0, calls |-> 0]
    /\ hideWatch = [watching |-> FALSE, stale |-> 0, pending |-> FALSE]
    /\ ConsentClosed

----------------------------------------------------------------------------
(* Coordinate sources *)

\* map.on('click')
MapClick(p) ==
    /\ marker' = p
    /\ UpdateFromMarker(p)
    /\ alerts' = <<>>
    /\ event' = [op |-> "MapClick", lngLat |-> p]
    /\ UNCHANGED <<addrVars, timerVars, searchReqs, geolocating, listVars,
                   formVars, navVars, submitVars>>

\* marker.on('dragend'): the drag has moved the marker to p.
DragEnd(p) ==
    /\ marker' = p
    /\ UpdateFromMarker(marker')
    /\ alerts' = <<>>
    /\ event' = [op |-> "DragEnd", lngLat |-> p]
    /\ UNCHANGED <<addrVars, timerVars, searchReqs, geolocating, listVars,
                   formVars, navVars, submitVars>>

\* click on #geolocation
GeolocationClick(supported) ==
    /\ supported => geolocating < MaxGeolocating
    /\ geolocating' = IF supported THEN geolocating + 1 ELSE geolocating
    /\ alerts' = IF supported THEN <<>>
                 ELSE <<"Geolocation is not supported by your browser.">>
    /\ event' = [op |-> "GeolocationClick"]
    /\ UNCHANGED <<coordVars, addrVars, timerVars, reverseReqs, searchReqs,
                   listVars, formVars, navVars, submitVars>>

\* getCurrentPosition success callback
GeolocationSuccess(p) ==
    /\ geolocating > 0
    /\ geolocating' = geolocating - 1
    /\ marker' = p
    /\ UpdateFromMarker(p)
    /\ alerts' = <<>>
    /\ event' = [op |-> "GeolocationSuccess", lngLat |-> p]
    /\ UNCHANGED <<addrVars, timerVars, searchReqs, listVars,
                   formVars, navVars, submitVars>>

\* getCurrentPosition error callback
GeolocationError ==
    /\ geolocating > 0
    /\ geolocating' = geolocating - 1
    /\ alerts' = <<"Geolocation not available or permission denied.">>
    /\ event' = [op |-> "GeolocationError"]
    /\ UNCHANGED <<coordVars, addrVars, timerVars, reverseReqs, searchReqs,
                   listVars, formVars, navVars, submitVars>>

\* updateMarkerFromInputs, run with the two fields holding latText and lngText;
\* the event records whether the pair passed the test of line 187.
UpdateMarkerFromInputs(op, latText, lngText) ==
    \E lat \in {parseFloat(latText)}, lng \in {parseFloat(lngText)} :
        /\ IF ValidPair(lat, lng)
           THEN /\ marker' = [lat |-> lat.v, lng |-> lng.v]
                /\ geoTimeout' = debounce(marker', GeoDelay)
           ELSE UNCHANGED <<marker, geoTimeout>>
        /\ event' = [op |-> op, valid |-> ValidPair(lat, lng)]

\* 'input' on #latitude: the user has made the field hold text.
LatitudeInput(text) ==
    /\ latitude' = text
    /\ UpdateMarkerFromInputs("LatitudeInput", text, longitude)
    /\ alerts' = <<>>
    /\ UNCHANGED <<longitude, addrVars, searchTimeout, netVars, listVars,
                   formVars, navVars, submitVars>>

\* 'input' on #longitude
LongitudeInput(text) ==
    /\ longitude' = text
    /\ UpdateMarkerFromInputs("LongitudeInput", latitude, text)
    /\ alerts' = <<>>
    /\ UNCHANGED <<latitude, addrVars, searchTimeout, netVars, listVars,
                   formVars, navVars, submitVars>>

\* The timer of debouncedUpdateFromMarker fires: updateFromMarker(lngLat).
GeoTimerFire ==
    /\ TimerDue(geoTimeout)
    /\ UpdateFromMarker(geoTimeout.arg)
    /\ geoTimeout' = NoTimer
    /\ alerts' = <<>>
    /\ event' = [op |-> "GeoTimerFire", lngLat |-> geoTimeout.arg]
    /\ UNCHANGED <<marker, addrVars, searchTimeout, searchReqs, geolocating,
                   listVars, formVars, navVars, submitVars>>

\* The i-th reverse-geocoding fetch in flight ends: updateFromMarker resumes.
ReverseResponse(i, outcome) ==
    /\ i \in 1..Len(reverseReqs)
    /\ LET after == AddressAfter(ReverseData(reverseReqs[i], outcome), AddressNow)
       IN  /\ address' = after.address
           /\ pincode' = after.pincode
           /\ state' = after.state
           /\ district' = after.district
           /\ town' = after.town
    /\ reverseReqs' = RemoveAt(reverseReqs, i)
    /\ alerts' = <<>>
    /\ event' = [op |-> "ReverseResponse", req |-> reverseReqs[i],
                 outcome |-> outcome, overtook |-> i > 1]
    /\ UNCHANGED <<coordVars, timerVars, searchReqs, geolocating, listVars,
                   formVars, navVars, submitVars>>

\* 100 ms pass while a timer is pending; a timer that is due fires first.
Tick ==
    /\ geoTimeout.set \/ searchTimeout.set
    /\ ~TimerDue(geoTimeout) /\ ~TimerDue(searchTimeout)
    /\ geoTimeout' = TimerTick(geoTimeout)
    /\ searchTimeout' = TimerTick(searchTimeout)
    /\ alerts' = <<>>
    /\ event' = [op |-> "Tick"]
    /\ UNCHANGED <<coordVars, addrVars, netVars, listVars, formVars, navVars,
                   submitVars>>

\* With no timer pending nothing is scheduled: time passes and the page stays
\* as it is.
Wait ==
    /\ ~geoTimeout.set /\ ~searchTimeout.set
    /\ alerts' = <<>>
    /\ event' = [op |-> "Wait"]
    /\ UNCHANGED <<coordVars, addrVars, timerVars, netVars, listVars, formVars,
                   navVars, submitVars>>

----------------------------------------------------------------------------
(* Address search and the suggestion list *)

SuggestionsAfterKeepOpen(data) ==
    IF data.has /\ Len(data.features) > 0
    THEN [items |-> data.features, hidden |-> FALSE]
    ELSE [items |-> <<>>, hidden |-> suggestionsHidden]

\* debouncedAddressSearch, lines 228-246: the list after a response that parsed.
SuggestionsAfter(data) ==
    IF data.has /\ Len(data.features) > 0
    THEN [items |-> data.features, hidden |-> FALSE]
    ELSE [items |-> <<>>, hidden |-> TRUE]

\* 'input' on #address
AddressInput(text) ==
    /\ address' = text
    /\ searchTimeout' = debounce(text, SearchDelay)
    /\ alerts' = <<>>
    /\ event' = [op |-> "AddressInput"]
    /\ UNCHANGED <<coordVars, pincode, state, district, town, geoTimeout, netVars,
                   listVars, formVars, navVars, submitVars>>

\* debouncedAddressSearch, line 218: input.length < 3
TooShortOffByOne(input) == Len(input) < MinQueryLen - 1

TooShort(input) == Len(input) < MinQueryLen

\* The timer of debouncedAddressSearch fires: the search runs with its input.
SearchTimerFire ==
    /\ TimerDue(searchTimeout)
    /\ LET input == searchTimeout.arg
       IN  IF TooShort(input)
           THEN /\ suggestionsHidden' = TRUE
                /\ UNCHANGED searchReqs
           ELSE /\ Len(searchReqs) < MaxInFlight
                /\ searchReqs' = Append(searchReqs, input)
                /\ UNCHANGED suggestionsHidden
    /\ searchTimeout' = NoTimer
    /\ alerts' = <<>>
    /\ event' = [op |-> "SearchTimerFire", text |-> searchTimeout.arg]
    /\ UNCHANGED <<coordVars, addrVars, geoTimeout, reverseReqs, geolocating,
                   suggestions, formVars, navVars, submitVars>>

SearchResponseFailureClears(i, outcome) ==
    /\ i \in 1..Len(searchReqs)
    /\ LET after == IF outcome = "error" THEN [items |-> <<>>, hidden |-> TRUE]
                    ELSE SuggestionsAfter(SearchData(searchReqs[i], outcome))
       IN  /\ suggestions' = after.items
           /\ suggestionsHidden' = after.hidden
    /\ searchReqs' = RemoveAt(searchReqs, i)
    /\ alerts' = <<>>
    /\ event' = [op |-> "SearchResponse", text |-> searchReqs[i],
                 outcome |-> outcome, index |-> i]
    /\ UNCHANGED <<coordVars, addrVars, timerVars, reverseReqs, geolocating,
                   formVars, navVars, submitVars>>

\* The i-th forward-search fetch in flight ends: the search resumes.
SearchResponse(i, outcome) ==
    /\ i \in 1..Len(searchReqs)
    /\ IF outcome = "error"
       THEN UNCHANGED listVars
       ELSE LET after == SuggestionsAfter(SearchData(searchReqs[i], outcome))
            IN  /\ suggestions' = after.items
                /\ suggestionsHidden' = after.hidden
    /\ searchReqs' = RemoveAt(searchReqs, i)
    /\ alerts' = <<>>
    /\ event' = [op |-> "SearchResponse", text |-> searchReqs[i],
                 outcome |-> outcome, index |-> i]
    /\ UNCHANGED <<coordVars, addrVars, timerVars, reverseReqs, geolocating,
                   formVars, navVars, submitVars>>

\* suggestion onclick, line 236: const [lng, lat] = place.center
SuggestionCenterSwapped(place) == [lat |-> place.center.lng, lng |-> place.center.lat]

SuggestionCenter(place) == [lat |-> place.center.lat, lng |-> place.center.lng]

\* onclick of the i-th suggestion
SelectSuggestion(i) ==
    /\ ~suggestionsHidden
    /\ i \in 1..Len(suggestions)
    /\ marker' = SuggestionCenter(suggestions[i])
    /\ UpdateFromMarker(marker')
    /\ suggestionsHidden' = TRUE
    /\ alerts' = <<>>
    /\ event' = [op |-> "SelectSuggestion", index |-> i, lngLat |-> marker']
    /\ UNCHANGED <<addrVars, timerVars, searchReqs, geolocating, suggestions,
                   formVars, navVars, submitVars>>

\* A click on the page outside '.relative' (the click listener of the document)
ClickOutside ==
    /\ suggestionsHidden' = TRUE
    /\ alerts' = <<>>
    /\ event' = [op |-> "ClickOutside"]
    /\ UNCHANGED <<coordVars, addrVars, timerVars, netVars, suggestions,
                   formVars, navVars, submitVars>>

----------------------------------------------------------------------------
(* The data-entry fields, navigation and submission *)

NameTexts == {"", "Asha"}

AreaTexts == { <<>>, <<"1", "0", "0">> }

OpenSpaceValues == {"", "small"}

FullNameInput(text) ==
    /\ fullName' = text
    /\ alerts' = <<>>
    /\ event' = [op |-> "FullNameInput"]
    /\ UNCHANGED <<coordVars, addrVars, timerVars, netVars, listVars,
                   rooftopArea, openSpaceArea, detailVars, navVars, submitVars>>

RooftopAreaInput(text) ==
    /\ rooftopArea' = text
    /\ alerts' = <<>>
    /\ event' = [op |-> "RooftopAreaInput"]
    /\ UNCHANGED <<coordVars, addrVars, timerVars, netVars, listVars,
                   fullName, openSpaceArea, detailVars, navVars, submitVars>>

OpenSpaceSelect(v) ==
    /\ openSpaceArea' = v
    /\ alerts' = <<>>
    /\ event' = [op |-> "OpenSpaceSelect"]
    /\ UNCHANGED <<coordVars, addrVars, timerVars, netVars, listVars,
                   fullName, rooftopArea, detailVars, navVars, submitVars>>

\* The controls of the data-entry section that no handler watches: their
\* values are read by submitData only.
HouseholdSizes == { <<>>, <<"3", "-", "4">> }

BudgetRanges == {"", "medium"}

IntendedUses == {"", "drinking"}

\* The existing_water_sources check boxes, in document order.
WaterSourceBoxes == <<"borewell", "municipal">>

HouseholdSizeSelect(v) ==
    /\ householdSize' = v
    /\ alerts' = <<>>
    /\ event' = [op |-> "HouseholdSizeSelect"]
    /\ UNCHANGED <<coordVars, addrVars, timerVars, netVars, listVars, fullName,
                   rooftopArea, openSpaceArea, propertyType, roofType, waterSources,
                   budgetRange, intendedUse, navVars, submitVars>>

BudgetRangeSelect(v) ==
    /\ budgetRange' = v
    /\ alerts' = <<>>
    /\ event' = [op |-> "BudgetRangeSelect"]
    /\ UNCHANGED <<coordVars, addrVars, timerVars, netVars, listVars, fullName,
                   rooftopArea, openSpaceArea, householdSize, propertyType, roofType,
                   waterSources, intendedUse, navVars, submitVars>>

IntendedUseSelect(v) ==
    /\ intendedUse' = v
    /\ alerts' = <<>>
    /\ event' = [op |-> "IntendedUseSelect"]
    /\ UNCHANGED <<coordVars, addrVars, timerVars, netVars, listVars, fullName,
                   rooftopArea, openSpaceArea, householdSize, propertyType, roofType,
                   waterSources, budgetRange, navVars, submitVars>>

\* A click on an existing_water_sources check box toggles it.
WaterSourceToggle(v) ==
    /\ waterSources' = IF v \in waterSources THEN waterSources \ {v}
                       ELSE waterSources \cup {v}
    /\ alerts' = <<>>
    /\ event' = [op |-> "WaterSourceToggle"]
    /\ UNCHANGED <<coordVars, addrVars, timerVars, netVars, listVars, fullName,
                   rooftopArea, openSpaceArea, householdSize, propertyType, roofType,
                   budgetRange, intendedUse, navVars, submitVars>>

\* click on a .radio-option, lines 288-302: its radio becomes the checked
\* one of its group.
RadioClick(name, v) ==
    /\ name \in {"propertyType", "roofType"}
    /\ propertyType' = IF name = "propertyType" THEN v ELSE propertyType
    /\ roofType' = IF name = "roofType" THEN v ELSE roofType
    /\ alerts' = <<>>
    /\ event' = [op |-> "RadioClick"]
    /\ UNCHANGED <<coordVars, addrVars, timerVars, netVars, listVars, fullName,
                   rooftopArea, openSpaceArea, householdSize, waterSources,
                   budgetRange, intendedUse, navVars, submitVars>>

CoordinatesMissingBoth(lat, lng) == lat = <<>> /\ lng = <<>>

\* nextSection, line 319: !lat || !lng
CoordinatesMissing(lat, lng) == lat = <<>> \/ lng = <<>>

\* window.nextSection
nextSection ==
    /\ IF CoordinatesMissing(latitude, longitude)
       THEN /\ alerts' = <<"Please provide valid coordinates before proceeding.">>
            /\ UNCHANGED navVars
       ELSE /\ alerts' = <<>>
            /\ locationActive' = FALSE
            /\ dataActive' = TRUE
    /\ event' = [op |-> "nextSection"]
    /\ UNCHANGED <<coordVars, addrVars, timerVars, netVars, listVars,
                   formVars, submitVars>>

\* window.previousSection
previousSection ==
    /\ dataActive' = FALSE
    /\ locationActive' = TRUE
    /\ alerts' = <<>>
    /\ event' = [op |-> "previousSection"]
    /\ UNCHANGED <<coordVars, addrVars, timerVars, netVars, listVars,
                   formVars, submitVars>>

requiredFieldsWithoutOpenSpace ==
    << [empty |-> latitude = <<>>,   name |-> "Latitude"],
       [empty |-> longitude = <<>>,  name |-> "Longitude"],
       [empty |-> fullName = "",     name |-> "Full Name"],
       [empty |-> rooftopArea = <<>>, name |-> "Rooftop Area"] >>

\* submitData, lines 378-384
requiredFields ==
    << [empty |-> latitude = <<>>,   name |-> "Latitude"],
       [empty |-> longitude = <<>>,  name |-> "Longitude"],
       [empty |-> fullName = "",     name |-> "Full Name"],
       [empty |-> rooftopArea = <<>>, name |-> "Rooftop Area"],
       [empty |-> openSpaceArea = "", name |-> "Open Space Area"] >>

\* submitData, lines 386-391: the alerts of the validation loop.
ValidationAlerts(fields) ==
    LET missing == {i \in 1..Len(fields) : fields[i].empty}
    IN  IF missing = {} THEN <<>>
        ELSE LET first == CHOOSE i \in missing : \A j \in missing : i <= j
             IN  << "Please provide " \o fields[first].name >>

\* The properties every object literal inherits from Object.prototype, each
\* with the text String() gives for it.
ObjectPrototype ==
    [key \in {"constructor", "toString", "toLocaleString", "valueOf",
              "hasOwnProperty", "isPrototypeOf", "propertyIsEnumerable"} |->
        IF key = "constructor" THEN "function Object() { [native code] }"
        ELSE "function " \o key \o "() { [native code] }"]

\* submitData, lines 413-415: the object literal's own properties.
OpenSpaceBuckets ==
    [key \in {"none", "small", "medium", "large"} |->
        CASE key = "none" -> 0 [] key = "small" -> 10
          [] key = "medium" -> 60 [] key = "large" -> 150]

\* ({...}[openSpaceArea] || 0), as the text the hidden input carries: an own
\* property, else an inherited one (a function, which is not falsy), else
\* undefined, which || turns into 0.
open_space_area(category) ==
    IF category \in DOMAIN OpenSpaceBuckets
    THEN NatDigits(OpenSpaceBuckets[category])
    ELSE IF category \in DOMAIN ObjectPrototype
    THEN <<ObjectPrototype[category]>>
    ELSE <<"0">>

\* parseInt(s) || 0 for a text without a radix prefix: blanks, a sign, then
\* digits; 0 when there is no digit.
parseIntOr0(s) ==
    LET i    == SkipSpaces(s, 1)
        neg  == i <= Len(s) /\ s[i] = "-"
        from == IF i <= Len(s) /\ s[i] \in {"-", "+"} THEN i + 1 ELSE i
        n    == DigitsValue(s, from, DigitRun(s, from))
    IN  IF neg THEN -n ELSE n

\* s.split('-')[0]
BeforeDash(s) ==
    IF \E i \in 1..Len(s) : s[i] = "-"
    THEN SubSeq(s, 1, (CHOOSE i \in 1..Len(s) :
                          s[i] = "-" /\ \A j \in 1..(i - 1) : s[j] # "-") - 1)
    ELSE s

\* The text of an integer.
IntText(n) == IF n < 0 THEN <<"-">> \o NatDigits(-n) ELSE NatDigits(n)

\* parseInt((householdSize || "0").split('-')[0]) || 0
household_size(text) ==
    IntText(parseIntOr0(BeforeDash(IF text = <<>> THEN <<"0">> ELSE text)))

\* formData.waterSources.join(','): the checked boxes in document order.
RECURSIVE JoinChecked(_, _)
JoinChecked(boxes, checked) ==
    IF boxes = <<>> THEN ""
    ELSE LET rest == JoinChecked(Tail(boxes), checked)
         IN  IF Head(boxes) \notin checked THEN rest
             ELSE IF rest = "" THEN Head(boxes)
             ELSE Head(boxes) \o "," \o rest

dataToSubmitFromMarker ==
    [name          |-> fullName,
     location_name |-> address,
     user_lat      |-> toFixed5(marker.lat),
     user_lon      |-> toFixed5(marker.lng),
     roof_type     |-> IF roofType = "" THEN "mixed" ELSE roofType,
     household_size |-> household_size(householdSize),
     rooftop_area  |-> rooftop_area(rooftopArea),
     open_space_area |-> open_space_area(openSpaceArea),
     property_type |-> IF propertyType = "" THEN "Residential" ELSE propertyType,
     existing_water_sources |-> JoinChecked(WaterSourceBoxes, waterSources),
     budget_preference |-> budgetRange,
     intended_use  |-> intendedUse]

\* submitData, lines 405-420, each value as the text its hidden input carries.
\* (contactNumber, storageMonths and the timestamp are collected in formData
\* but are no part of dataToSubmit.)
dataToSubmit ==
    [name          |-> fullName,
     location_name |-> address,
     user_lat      |-> latitude,
     user_lon      |-> longitude,
     roof_type     |-> IF roofType = "" THEN "mixed" ELSE roofType,
     household_size |-> household_size(householdSize),
     rooftop_area  |-> rooftop_area(rooftopArea),
     open_space_area |-> open_space_area(openSpaceArea),
     property_type |-> IF propertyType = "" THEN "Residential" ELSE propertyType,
     existing_water_sources |-> JoinChecked(WaterSourceBoxes, waterSources),
     budget_preference |-> budgetRange,
     intended_use  |-> intendedUse]

\* submitData, lines 400-402 and 422-436: the form that is submitted.
SubmittedForm(data) == [method |-> "POST", action |-> "/submit_form", data |-> data]

submitDataKeepsButton ==
    /\ ~submitBtn.disabled
    /\ LET shown == ValidationAlerts(requiredFields)
       IN  /\ alerts' = shown
           /\ IF shown # <<>>
              THEN UNCHANGED submitVars
              ELSE /\ submitBtn' = [disabled |-> FALSE, html |-> "Processing..."]
                   /\ posts' = Append(posts, SubmittedForm(dataToSubmit))
    /\ event' = [op |-> "submitData"]
    /\ UNCHANGED <<coordVars, addrVars, timerVars, netVars, listVars,
                   formVars, navVars>>

\* window.submitData, called by a click on #submitData
submitData ==
    /\ ~submitBtn.disabled
    /\ LET shown == ValidationAlerts(requiredFields)
       IN  /\ alerts' = shown
           /\ IF shown # <<>>
              THEN UNCHANGED submitVars
              ELSE /\ submitBtn' = [disabled |-> TRUE, html |-> "Processing..."]
                   /\ posts' = Append(posts, SubmittedForm(dataToSubmit))
    /\ event' = [op |-> "submitData"]
    /\ UNCHANGED <<coordVars, addrVars, timerVars, netVars, listVars,
                   formVars, navVars>>

----------------------------------------------------------------------------
(* Bursts of Coordinate changes.  A burst is a run of Coordinate changes    *)
(* each less than 500 ms after the one before; sinceChange and burstCalls   *)
(* observe the page and are read by no handler.                             *)

CoordinateChanged(e) ==
    \/ e.op \in {"MapClick", "DragEnd", "GeolocationSuccess", "SelectSuggestion"}
    \/ e.op \in {"LatitudeInput", "LongitudeInput"} /\ e.valid

ObserveBurst ==
    LET changed == CoordinateChanged(event') /\ marker' # marker
        issued  == /\ Len(reverseReqs') > Len(reverseReqs)
                   /\ changed \/ event'.op = "GeoTimerFire"
        base    == IF changed /\ sinceChange >= GeoDelay THEN 0 ELSE burstCalls
    IN  /\ burstCalls' = IF issued THEN Min(base + 1, MaxBurstCalls) ELSE base
        /\ sinceChange' = IF changed THEN 0
                          ELSE IF event'.op = "Tick" THEN Min(sinceChange + 1, GeoDelay)
                          ELSE IF event'.op = "Wait" THEN GeoDelay
                          ELSE sinceChange
        /\ UNCHANGED <<inputBurst, hideWatch, consentVars>>

NoBurst == UNCHANGED <<burstVars, consentVars>>

\* The run of #address input events in which each follows the one before by
\* less than the delay of line 250: 100 ms steps since the last of them, how
\* many there were, how often the search handler has run for the run and how
\* many fetches it issued (all capped).
ObserveInput ==
    LET b     == inputBurst
        fresh == b.since >= SearchDelay
    IN  /\ inputBurst' =
              IF event'.op = "AddressInput"
              THEN [since  |-> 0,
                    inputs |-> IF fresh THEN 1 ELSE Min(b.inputs + 1, MaxBurstInputs),
                    runs   |-> IF fresh THEN 0 ELSE b.runs,
                    calls  |-> IF fresh THEN 0 ELSE b.calls]
              ELSE IF event'.op = "Tick"
              THEN [b EXCEPT !.since = Min(b.since + 1, SearchDelay)]
              ELSE IF event'.op = "SearchTimerFire"
              THEN [b EXCEPT !.runs = Min(b.runs + 1, MaxBurstCalls),
                             !.calls = Min(b.calls + Len(searchReqs') - Len(searchReqs),
                                           MaxBurstCalls)]
              ELSE b
        /\ UNCHANGED <<sinceChange, burstCalls, hideWatch, consentVars>>

\* The list hidden by a selection (line 240) or by a search run with a short
\* text (line 219), watched until a search for a later input shows it: how
\* many of the fetches in flight (the first ones of searchReqs) were issued
\* for inputs made before the hiding, and whether the pending timer carries
\* such an input.
ObserveHide ==
    LET w     == hideWatch
        op    == event'.op
        hides == \/ op = "SelectSuggestion"
                 \/ op = "SearchTimerFire" /\ TooShort(event'.text)
    IN  /\ hideWatch' =
              IF hides
              THEN [watching |-> TRUE, stale |-> Len(searchReqs'),
                    pending |-> searchTimeout'.set]
              ELSE IF ~w.watching THEN w
              ELSE IF op = "AddressInput" THEN [w EXCEPT !.pending = FALSE]
              ELSE IF op = "SearchTimerFire"
              THEN [w EXCEPT !.stale = IF w.pending THEN w.stale + 1 ELSE w.stale,
                             !.pending = FALSE]
              ELSE IF op = "SearchResponse" /\ event'.index <= w.stale
              THEN [w EXCEPT !.stale = w.stale - 1]
              ELSE IF op = "SearchResponse" /\ ~suggestionsHidden'
              THEN [watching |-> FALSE, stale |-> 0, pending |-> FALSE]
              ELSE w
        /\ UNCHANGED <<sinceChange, burstCalls, inputBurst, consentVars>>

----------------------------------------------------------------------------
(* Specifications.  Spec is the whole page.  The others take the handlers   *)
(* one part of the page needs, with inputs of that part, so that each can   *)
(* be explored in full.                                                      *)

CoordinateStep ==
    \/ \E p \in ClickPoints : MapClick(p)
    \/ \E p \in DragPoints : DragEnd(p)
    \/ \E supported \in BOOLEAN : GeolocationClick(supported)
    \/ \E p \in GeoPositions : GeolocationSuccess(p)
    \/ GeolocationError
    \/ \E text \in LatTexts : LatitudeInput(text)
    \/ \E text \in LngTexts : LongitudeInput(text)
    \/ GeoTimerFire
    \/ \E i \in 1..MaxInFlight, outcome \in Outcomes : ReverseResponse(i, outcome)
    \/ Tick

SearchStep ==
    \/ \E text \in AddressTexts : AddressInput(text)
    \/ SearchTimerFire
    \/ \E i \in 1..MaxInFlight, outcome \in Outcomes : SearchResponse(i, outcome)
    \/ \E i \in 1..Len(suggestions) : SelectSuggestion(i)
    \/ ClickOutside

FormStep ==
    \/ \E text \in NameTexts : FullNameInput(text)
    \/ \E text \in AreaTexts : RooftopAreaInput(text)
    \/ \E v \in OpenSpaceValues : OpenSpaceSelect(v)
    \/ nextSection
    \/ previousSection
    \/ submitData

Next ==
    \/ CoordinateStep /\ ObserveBurst
    \/ SearchStep /\ ObserveBurst
    \/ FormStep /\ ObserveBurst
    \/ Wait /\ ObserveBurst

Spec == Init /\ [][Next]_vars

\* The page after a search for "pune" has listed its results.
InitSearched ==
    /\ marker = IndiaCenter
    /\ latitude = <<>> /\ longitude = <<>>
    /\ address = "pune" /\ pincode = "" /\ state = "" /\ district = "" /\ town = ""
    /\ geoTimeout = NoTimer /\ searchTimeout = NoTimer
    /\ reverseReqs = <<>> /\ searchReqs = <<>> /\ geolocating = 0
    /\ suggestions = SearchFeatures("pune") /\ suggestionsHidden = FALSE
    /\ fullName = "" /\ rooftopArea = <<>> /\ openSpaceArea = ""
    /\ householdSize = <<>> /\ propertyType = "" /\ roofType = ""
    /\ waterSources = {} /\ budgetRange = "" /\ intendedUse = ""
    /\ locationActive = TRUE /\ dataActive = FALSE
    /\ submitBtn = [disabled |-> FALSE, html |-> "Submit"]
    /\ posts = <<>>
    /\ alerts = <<>>
    /\ event = [op |-> "SearchResponse", text |-> "pune", outcome |-> "ok"]
    /\ sinceChange = GeoDelay
    /\ burstCalls = 0
    /\ inputBurst = [since |-> SearchDelay, inputs |-> 0, runs |-> 0, calls |-> 0]
    /\ hideWatch = [watching |-> FALSE, stale |-> 0, pending |-> FALSE]
    /\ ConsentClosed

\* The Coordinate and its five sources, the debounce timer and the
\* reverse-geocoding responses.
NextCoord ==
    \/ NoBurst /\ \E p \in ClickPoints : MapClick(p)
    \/ NoBurst /\ \E p \in DragPoints : DragEnd(p)
    \/ NoBurst /\ \E supported \in BOOLEAN : GeolocationClick(supported)
    \/ NoBurst /\ \E p \in GeoPositions : GeolocationSuccess(p)
    \/ NoBurst /\ GeolocationError
    \/ NoBurst /\ LatitudeInput(TextA.lat)
    \/ NoBurst /\ LongitudeInput(TextA.lng)
    \/ NoBurst /\ \E i \in 1..Len(suggestions) : SelectSuggestion(i)
    \/ NoBurst /\ GeoTimerFire
    \/ NoBurst /\ \E i \in 1..MaxInFlight : ReverseResponse(i, "ok")
    \/ NoBurst /\ Tick

SpecCoord == InitSearched /\ [][NextCoord]_vars

\* Bursts of Coordinate changes, observed.
NextBurst ==
    \/ (\E p \in ClickPoints : MapClick(p)) /\ ObserveBurst
    \/ (\E p \in DragPoints : DragEnd(p)) /\ ObserveBurst
    \/ LatitudeInput(TextA.lat) /\ ObserveBurst
    \/ LongitudeInput(TextA.lng) /\ ObserveBurst
    \/ GeoTimerFire /\ ObserveBurst
    \/ (\E i \in 1..MaxInFlight : ReverseResponse(i, "error")) /\ ObserveBurst
    \/ Tick /\ ObserveBurst
    \/ sinceChange < GeoDelay /\ Wait /\ ObserveBurst

SpecBurst == Init /\ [][NextBurst]_vars

\* Reverse geocoding alone: requests, and responses of every kind in any order.
NextReverse ==
    \/ NoBurst /\ \E p \in {PointA, PointB} : MapClick(p)
    \/ NoBurst /\ \E p \in DragPoints : DragEnd(p)
    \/ NoBurst /\ \E text \in AddressTexts : AddressInput(text)
    \/ NoBurst /\ \E i \in 1..MaxInFlight, outcome \in Outcomes :
                     ReverseResponse(i, outcome)

SpecReverse == Init /\ [][NextReverse]_vars

\* The address search and the suggestion list.
NextSearch ==
    \/ NoBurst /\ \E text \in AddressTexts : AddressInput(text)
    \/ NoBurst /\ SearchTimerFire
    \/ NoBurst /\ \E i \in 1..MaxInFlight, outcome \in Outcomes :
                     SearchResponse(i, outcome)
    \/ NoBurst /\ \E i \in 1..Len(suggestions) : SelectSuggestion(i)
    \/ NoBurst /\ ClickOutside
    \/ NoBurst /\ \E i \in 1..MaxInFlight : ReverseResponse(i, "ok")
    \/ NoBurst /\ Tick

SpecSearch == Init /\ [][NextSearch]_vars

\* The two sections and the submission.
NextForm ==
    \/ NoBurst /\ \E text \in {<<>>, TextA.lat} : LatitudeInput(text)
    \/ NoBurst /\ \E text \in {<<>>, TextA.lng} : LongitudeInput(text)
    \/ NoBurst /\ \E text \in NameTexts : FullNameInput(text)
    \/ NoBurst /\ \E text \in AreaTexts : RooftopAreaInput(text)
    \/ NoBurst /\ \E v \in OpenSpaceValues : OpenSpaceSelect(v)
    \/ NoBurst /\ nextSection
    \/ NoBurst /\ previousSection
    \/ NoBurst /\ submitData

SpecForm == Init /\ [][NextForm]_vars

\* The data-entry section once the location is set: the page after the pair
\* TextA was typed, the debounced lookup was answered, the name was typed
\* and nextSection was called.
InitData ==
    /\ marker = PointA
    /\ latitude = toFixed5(PointA.lat) /\ longitude = toFixed5(PointA.lng)
    /\ address = Bengaluru.place_name /\ pincode = Bengaluru.postcode
    /\ state = Bengaluru.region /\ district = Bengaluru.district
    /\ town = Bengaluru.place
    /\ geoTimeout = NoTimer /\ searchTimeout = NoTimer
    /\ reverseReqs = <<>> /\ searchReqs = <<>> /\ geolocating = 0
    /\ suggestions = <<>> /\ suggestionsHidden = TRUE
    /\ fullName = "Asha" /\ rooftopArea = <<>> /\ openSpaceArea = ""
    /\ householdSize = <<>> /\ propertyType = "" /\ roofType = ""
    /\ waterSources = {} /\ budgetRange = "" /\ intendedUse = ""
    /\ locationActive = FALSE /\ dataActive = TRUE
    /\ submitBtn = [disabled |-> FALSE, html |-> "Submit"]
    /\ posts = <<>>
    /\ alerts = <<>>
    /\ event = [op |-> "nextSection"]
    /\ sinceChange = GeoDelay
    /\ burstCalls = 0
    /\ inputBurst = [since |-> SearchDelay, inputs |-> 0, runs |-> 0, calls |-> 0]
    /\ hideWatch = [watching |-> FALSE, stale |-> 0, pending |-> FALSE]
    /\ ConsentClosed

SubmitAreaTexts ==
    { <<>>, <<"1", "0", "0">>, <<"5", "0", "0", "0">>, <<"1", "5", "0", "0", "0">>,
      <<"1", "2", ".", "5">>, <<"-", "5">>, <<"a", "b", "c">> }

SubmitOpenSpaceValues ==
    {"", "none", "small", "medium", "large", "huge", "constructor"}

\* Filling the data-entry section and submitting it.
NextSubmit ==
    \/ NoBurst /\ \E text \in SubmitAreaTexts : RooftopAreaInput(text)
    \/ NoBurst /\ \E v \in SubmitOpenSpaceValues : OpenSpaceSelect(v)
    \/ NoBurst /\ submitData

SpecSubmit == InitData /\ [][NextSubmit]_vars

\* Typing into #address: runs of input events, the timer of the debounced
\* search and its responses.  A timer that is due fires before a later input
\* is handled.
NextDebounce ==
    \/ ~TimerDue(searchTimeout) /\ (\E text \in AddressTexts : AddressInput(text))
                                /\ ObserveInput
    \/ SearchTimerFire /\ ObserveInput
    \/ (\E i \in 1..MaxInFlight, outcome \in {"ok", "empty"} :
            SearchResponse(i, outcome)) /\ ObserveInput
    \/ Tick /\ ObserveInput

SpecDebounce == Init /\ [][NextDebounce]_vars

\* The suggestion list under responses of every kind, among them one that
\* holds more features than the request's limit.
NextList ==
    \/ NoBurst /\ \E text \in AddressTexts : AddressInput(text)
    \/ NoBurst /\ SearchTimerFire
    \/ NoBurst /\ \E i \in 1..MaxInFlight, outcome \in Outcomes \cup {"over"} :
                     SearchResponse(i, outcome)
    \/ NoBurst /\ ClickOutside
    \/ NoBurst /\ Tick

SpecList == Init /\ [][NextList]_vars

\* The suggestion list hidden and shown: searches, their responses in any
\* order, selections and clicks elsewhere.
NextHide ==
    \/ (\E text \in AddressTexts : AddressInput(text)) /\ ObserveHide
    \/ SearchTimerFire /\ ObserveHide
    \/ (\E i \in 1..MaxInFlight, outcome \in {"ok", "empty"} :
            SearchResponse(i, outcome)) /\ ObserveHide
    \/ (\E i \in 1..Len(suggestions) : SelectSuggestion(i)) /\ ObserveHide
    \/ (\E i \in 1..MaxInFlight : ReverseResponse(i, "error")) /\ ObserveHide
    \/ ClickOutside /\ ObserveHide
    \/ Tick /\ ObserveHide

SpecHide == Init /\ [][NextHide]_vars

\* The consent page as the document delivers it, before its DOMContentLoaded
\* handler has run: each of the three elements may be missing, a box may be
\* checked already and the button may be enabled or disabled.
InitConsent ==
    /\ marker = IndiaCenter
    /\ latitude = <<>> /\ longitude = <<>>
    /\ address = "" /\ pincode = "" /\ state = "" /\ district = "" /\ town = ""
    /\ geoTimeout = NoTimer /\ searchTimeout = NoTimer
    /\ reverseReqs = <<>> /\ searchReqs = <<>> /\ geolocating = 0
    /\ suggestions = <<>> /\ suggestionsHidden = TRUE
    /\ fullName = "" /\ rooftopArea = <<>> /\ openSpaceArea = ""
    /\ householdSize = <<>> /\ propertyType = "" /\ roofType = ""
    /\ waterSources = {} /\ budgetRange = "" /\ intendedUse = ""
    /\ locationActive = TRUE /\ dataActive = FALSE
    /\ submitBtn = [disabled |-> FALSE, html |-> "Submit"]
    /\ posts = <<>>
    /\ alerts = <<>>
    /\ event = [op |-> "load"]
    /\ sinceChange = GeoDelay
    /\ burstCalls = 0
    /\ inputBurst = [since |-> SearchDelay, inputs |-> 0, runs |-> 0, calls |-> 0]
    /\ hideWatch = [watching |-> FALSE, stale |-> 0, pending |-> FALSE]
    /\ dataConsent \in {NoElement} \cup { [present |-> TRUE, checked |-> c] : c \in BOOLEAN }
    /\ termsConsent \in {NoElement} \cup { [present |-> TRUE, checked |-> c] : c \in BOOLEAN }
    /\ proceedBtn \in {NoButton} \cup
          { [present |-> TRUE, disabled |-> d, dim |-> o] : d \in BOOLEAN, o \in BOOLEAN }
    /\ consentReady = FALSE

NextConsent ==
    \/ ConsentLoaded
    \/ DataConsentChange
    \/ TermsConsentChange

SpecConsent == InitConsent /\ [][NextConsent]_vars

\* Texts typed into the two coordinate fields: empty, in range, on the limits,
\* out of range, not numeric, and a number followed by a letter (which
\* parseFloat reads as the number).
TypedLatTexts == { <<>>, <<"9", "1">>, <<"x">>, <<"-", "9", "0">>, <<"1", "2", "x">> }

TypedLngTexts == LngTexts \cup { <<"1", "8", "0">> }

\* The two coordinate fields typed into, with the map, the timer and the
\* lookups they share the marker with; one lookup at a time, each failing, so
\* that the address fields stay as they are.
NextTyped ==
    \/ NoBurst /\ \E text \in TypedLatTexts : LatitudeInput(text)
    \/ NoBurst /\ \E text \in TypedLngTexts : LongitudeInput(text)
    \/ NoBurst /\ MapClick(PointB)
    \/ NoBurst /\ reverseReqs = <<>> /\ GeoTimerFire
    \/ NoBurst /\ ReverseResponse(1, "error")
    \/ NoBurst /\ Tick

SpecTyped == Init /\ [][NextTyped]_vars

\* The data-entry section with the two required fields filled: the page
\* InitData after 100 was typed as area and 'small' was selected.
InitFilled ==
    /\ marker = PointA
    /\ latitude = toFixed5(PointA.lat) /\ longitude = toFixed5(PointA.lng)
    /\ address = Bengaluru.place_name /\ pincode = Bengaluru.postcode
    /\ state = Bengaluru.region /\ district = Bengaluru.district
    /\ town = Bengaluru.place
    /\ geoTimeout = NoTimer /\ searchTimeout = NoTimer
    /\ reverseReqs = <<>> /\ searchReqs = <<>> /\ geolocating = 0
    /\ suggestions = <<>> /\ suggestionsHidden = TRUE
    /\ fullName = "Asha" /\ rooftopArea = <<"1", "0", "0">> /\ openSpaceArea = "small"
    /\ householdSize = <<>> /\ propertyType = "" /\ roofType = ""
    /\ waterSources = {} /\ budgetRange = "" /\ intendedUse = ""
    /\ locationActive = FALSE /\ dataActive = TRUE
    /\ submitBtn = [disabled |-> FALSE, html |-> "Submit"]
    /\ posts = <<>>
    /\ alerts = <<>>
    /\ event = [op |-> "OpenSpaceSelect"]
    /\ sinceChange = GeoDelay
    /\ burstCalls = 0
    /\ inputBurst = [since |-> SearchDelay, inputs |-> 0, runs |-> 0, calls |-> 0]
    /\ hideWatch = [watching |-> FALSE, stale |-> 0, pending |-> FALSE]
    /\ ConsentClosed

\* The inputs made before the form is submitted, and the submission.
NextPayload ==
    \/ NoBurst /\ posts = <<>> /\ LatitudeInput(<<"9", "1">>)
    \/ NoBurst /\ posts = <<>> /\ \E text \in NameTexts : FullNameInput(text)
    \/ NoBurst /\ posts = <<>> /\ \E v \in HouseholdSizes : HouseholdSizeSelect(v)
    \/ NoBurst /\ posts = <<>> /\ \E v \in BudgetRanges : BudgetRangeSelect(v)
    \/ NoBurst /\ posts = <<>> /\ \E v \in IntendedUses : IntendedUseSelect(v)
    \/ NoBurst /\ posts = <<>>
               /\ \E i \in 1..Len(WaterSourceBoxes) : WaterSourceToggle(WaterSourceBoxes[i])
    \/ NoBurst /\ posts = <<>> /\ RadioClick("propertyType", "Commercial")
    \/ NoBurst /\ posts = <<>> /\ RadioClick("roofType", "flat")
    \/ NoBurst /\ submitData

SpecPayload == InitFilled /\ [][NextPayload]_vars

----------------------------------------------------------------------------
(* What the claims read *)

DirectSources == {"MapClick", "DragEnd", "GeolocationSuccess", "SelectSuggestion"}

TextSources == {"LatitudeInput", "LongitudeInput"}

\* text is a decimal with exactly n digits after its point.
HasFractionDigits(text, n) ==
    /\ Len(text) > n + 1
    /\ text[Len(text) - n] = "."
    /\ \A i \in 1..Len(text) :
          \/ i = Len(text) - n
          \/ IsDigit(text[i])
          \/ i = 1 /\ text[i] = "-"

\* text is x rounded to 5 decimals: five digits after the point, and no
\* five-decimal number is nearer to x.
IsRounded5(text, x) ==
    /\ HasFractionDigits(text, 5)
    /\ ~parseFloat(text).nan
    /\ 2 * Abs(parseFloat(text).v - x) <= Pow10(MicroDigits - 5)
    /\ (text[1] = "-") = (x < 0)

FieldsShow(lat, lng, lngLat) ==
    IsRounded5(lat, lngLat.lat) /\ IsRounded5(lng, lngLat.lng)

\* The pair the two fields parse to.
ParsedPair(lat, lng) == [lat |-> parseFloat(lat).v, lng |-> parseFloat(lng).v]

\* C1 as stated: once any source has changed the Coordinate (map click, drag
\* end, geolocation result, suggestion selection, valid text input), both
\* fields hold the pair rounded to 5 decimals and the marker is at the pair.
C1_EverySourceWritesFields ==
    [][ CoordinateChanged(event') =>
          /\ FieldsShow(latitude', longitude', marker')
          /\ event'.op \in DirectSources => marker' = event'.lngLat
          /\ event'.op \in TextSources => marker' = ParsedPair(latitude', longitude')
      ]_vars

\* C1 as amended: a map click, drag end, geolocation result or suggestion
\* selection leaves both fields holding its pair rounded to 5 decimals and the
\* marker at the pair.  A valid text input leaves the marker at the pair the
\* fields parse to and schedules the debounced update with that pair; the
\* fields are rewritten, to the scheduled pair rounded to 5 decimals, when the
\* debounced update runs.
C1_FieldsFollowCoordinate ==
    [][ /\ event'.op \in DirectSources =>
              /\ marker' = event'.lngLat
              /\ FieldsShow(latitude', longitude', event'.lngLat)
        /\ (event'.op \in TextSources /\ event'.valid) =>
              /\ marker' = ParsedPair(latitude', longitude')
              /\ geoTimeout'.set /\ geoTimeout'.left = 5
              /\ geoTimeout'.arg = marker'
        /\ event'.op = "GeoTimerFire" =>
              /\ event'.lngLat = geoTimeout.arg
              /\ FieldsShow(latitude', longitude', geoTimeout.arg)
      ]_vars

\* C1 witness: the debounced update of a typed pair has rewritten the fields,
\* and the rounding changed the sixth decimal.
C1_Witness ==
    /\ event.op = "GeoTimerFire"
    /\ event.lngLat = PointA
    /\ marker = PointA
    /\ latitude # TextA.lat
    /\ FieldsShow(latitude, longitude, PointA)

\* C2 as stated: in a burst of Coordinate changes, each less than 500 ms after
\* the one before, at most one reverse-geocoding call is issued, and the
\* debounced call is issued for the Coordinate the burst ended on.
C2_OneCallPerBurst ==
    /\ burstCalls <= 1
    /\ event.op = "GeoTimerFire" => event.lngLat = marker

Quiescent == ~geoTimeout.set /\ reverseReqs = <<>>

\* C3 as stated: in every quiescent state (no debounce timer pending, no
\* response in flight) whose fields hold a valid in-range pair, the fields
\* are the marker position rounded to 5 decimals.
C3_FieldsMatchMarker ==
    (Quiescent /\ ValidPair(parseFloat(latitude), parseFloat(longitude)))
        => FieldsShow(latitude, longitude, marker)

\* What the address fields show of a feature.
ShownOf(feature) ==
    [address  |-> feature.place_name,
     pincode  |-> feature.postcode,
     state    |-> IF feature.region \in indianStates THEN feature.region ELSE "",
     district |-> feature.district,
     town     |-> feature.place]

\* C4 as stated: two requests are in flight, the newer one is answered first
\* and then the older one; after that the address fields hold the older
\* coordinate's result while the latitude and longitude fields and the marker
\* show the newer coordinate.
C4_StaleResponseWins ==
    [][ ( /\ event.op = "ReverseResponse" /\ event.overtook /\ event.outcome = "ok"
          /\ Len(reverseReqs) = 1
          /\ ~geoTimeout.set
          /\ latitude = event.req.lat /\ longitude = event.req.lng
          /\ event'.op = "ReverseResponse" /\ event'.outcome = "ok" )
        => /\ AddressNow' = ShownOf(ReverseFeatures(event'.req)[1])
           /\ latitude' = event.req.lat /\ longitude' = event.req.lng
           /\ toFixed5(marker'.lat) = event.req.lat
           /\ toFixed5(marker'.lng) = event.req.lng
      ]_vars

\* C5: a reverse-geocoding call that fails, or returns no feature, leaves the
\* five address fields as they were, shows no alert and is not issued again.
C5_FailedLookupChangesNothing ==
    [][ (event'.op = "ReverseResponse" /\ event'.outcome \in {"error", "missing", "empty"})
        => /\ address' = address /\ pincode' = pincode /\ state' = state
           /\ district' = district /\ town' = town
           /\ alerts' = <<>>
           /\ Len(reverseReqs') = Len(reverseReqs) - 1
           /\ geoTimeout' = geoTimeout
      ]_vars

\* C5 witness: a lookup has failed while the fields held an earlier result.
C5_Witness ==
    /\ event.op = "ReverseResponse"
    /\ event.outcome = "error"
    /\ address = Santiago.place_name
    /\ district = Santiago.district

EmptyResult(e) ==
    \/ e.outcome \in {"missing", "empty"}
    \/ e.outcome = "ok" /\ SearchFeatures(e.text) = <<>>

\* C6 as stated: after a forward search that ends with an empty result or
\* with an error the suggestion list is hidden.
C6_EmptyOrErrorHides ==
    [][ (event'.op = "SearchResponse" /\ (EmptyResult(event') \/ event'.outcome = "error"))
        => suggestionsHidden'
      ]_vars

\* C6 as amended: after a forward search that ends with an empty result the
\* suggestion list is hidden (and empty), whatever it was before; after one
\* that ends with an error the list and its visibility are as they were.
C6_EmptyHidesErrorKeeps ==
    [][ event'.op = "SearchResponse" =>
          /\ EmptyResult(event') => (suggestionsHidden' /\ suggestions' = <<>>)
          /\ event'.outcome = "error" =>
                (suggestionsHidden' = suggestionsHidden /\ suggestions' = suggestions)
      ]_vars

\* C6 witness: a search has failed and the list it found open is still open.
C6_Witness ==
    /\ event.op = "SearchResponse"
    /\ event.outcome = "error"
    /\ ~suggestionsHidden
    /\ suggestions # <<>>

\* C7: when the debounced search runs with fewer than 3 characters it hides
\* the list and issues no call; no call is ever issued for such an input.
C7_ShortInputNeverSearched ==
    [][ /\ (event'.op = "SearchTimerFire" /\ Len(event'.text) < 3)
            => (suggestionsHidden' /\ searchReqs' = searchReqs)
        /\ Len(searchReqs') > Len(searchReqs)
            => Len(searchReqs'[Len(searchReqs')]) >= 3
      ]_vars

\* C7 witness: the search has run with two characters and hidden a list that
\* held entries.
C7_Witness ==
    /\ event.op = "SearchTimerFire"
    /\ Len(event.text) = 2
    /\ suggestionsHidden
    /\ suggestions # <<>>

\* C8: selecting a suggestion moves the marker to the suggestion's center,
\* sets both fields to the center rounded to 5 decimals and hides the list.
C8_SelectionSetsCoordinate ==
    [][ event'.op = "SelectSuggestion" =>
          /\ marker' = suggestions[event'.index].center
          /\ FieldsShow(latitude', longitude', suggestions[event'.index].center)
          /\ suggestionsHidden'
      ]_vars

\* C8 witness: the second suggestion has been selected.
C8_Witness ==
    /\ event.op = "SelectSuggestion"
    /\ event.index = 2
    /\ marker = PointA
    /\ suggestionsHidden

\* The name of the first required field that is empty, in the order of the
\* claim ("" when none is).
FirstEmptyField ==
    IF latitude = <<>> THEN "Latitude"
    ELSE IF longitude = <<>> THEN "Longitude"
    ELSE IF fullName = "" THEN "Full Name"
    ELSE IF rooftopArea = <<>> THEN "Rooftop Area"
    ELSE IF openSpaceArea = "" THEN "Open Space Area"
    ELSE ""

\* C9: submitData with one of the five required fields empty issues no POST,
\* shows one alert naming the first empty field and leaves the button as it
\* was, enabled; it issues a POST only when all five are filled.
C9_SubmissionBlockedWhenIncomplete ==
    [][ event'.op = "submitData" =>
          IF FirstEmptyField # ""
          THEN /\ posts' = posts
               /\ alerts' = << "Please provide " \o FirstEmptyField >>
               /\ submitBtn' = submitBtn
               /\ ~submitBtn'.disabled
          ELSE /\ Len(posts') = Len(posts) + 1
               /\ alerts' = <<>>
      ]_vars

\* C9 witness: a submission was blocked for the third field alone.
C9_Witness ==
    /\ event.op = "submitData"
    /\ alerts = << "Please provide Full Name" >>
    /\ latitude # <<>> /\ longitude # <<>>
    /\ rooftopArea # <<>> /\ openSpaceArea # ""
    /\ posts = <<>>

\* C10: nextSection moves to data entry exactly when both coordinate fields
\* are filled, and otherwise alerts and leaves the sections as they are;
\* exactly one of the two sections is active at all times.
C10_ForwardOnlyWithCoordinates ==
    /\ [](locationActive # dataActive)
    /\ [][ event'.op = "nextSection" =>
             IF latitude # <<>> /\ longitude # <<>>
             THEN ~locationActive' /\ dataActive' /\ alerts' = <<>>
             ELSE /\ Len(alerts') = 1
                  /\ locationActive' = locationActive
                  /\ dataActive' = dataActive
         ]_vars

\* C10 witness: nextSection has moved the page to data entry.
C10_Witness ==
    /\ event.op = "nextSection"
    /\ dataActive /\ ~locationActive
    /\ alerts = <<>>

\* The rooftop area text as hundredths of a square foot.
AreaOf(text) == parseFloatIn(text, 2)

\* a * 0.092903 for a in hundredths, rounded to hundredths, the larger one
\* when the product is halfway.
RoundedSquareMetres(a) ==
    LET whole == (a \div 1000) * 92903
        r     == (whole % 1000) * 1000 + (a % 1000) * 92903
    IN  whole \div 1000 + r \div 1000000 + (IF r % 1000000 >= 500000 THEN 1 ELSE 0)

\* n hundredths written with two decimals.
TwoDecimals(n) ==
    NatDigits(n \div 100) \o <<".">>
        \o <<Digits[((n % 100) \div 10) + 1], Digits[(n % 10) + 1]>>

\* C11 as stated: for every rooftop area a >= 0 that passes validation the
\* submitted rooftop_area is a * 0.092903 rounded to two decimals, and 100
\* is submitted as 9.29.
C11_AreaInSquareMetres ==
    [][ (event'.op = "submitData" /\ Len(posts') > Len(posts)
         /\ ~AreaOf(rooftopArea).nan /\ AreaOf(rooftopArea).v >= 0)
        => /\ posts'[Len(posts')].data.rooftop_area
                = TwoDecimals(RoundedSquareMetres(AreaOf(rooftopArea).v))
           /\ rooftopArea = <<"1", "0", "0">>
                => posts'[Len(posts')].data.rooftop_area = <<"9", ".", "2", "9">>
      ]_vars

\* C12 as stated: the submitted open_space_area is 0 for 'none', 10 for
\* 'small', 60 for 'medium', 150 for 'large' and 0 for every other non-empty
\* category.
C12_OpenSpaceBuckets ==
    [][ (event'.op = "submitData" /\ Len(posts') > Len(posts))
        => posts'[Len(posts')].data.open_space_area =
              CASE openSpaceArea = "none"   -> <<"0">>
                [] openSpaceArea = "small"  -> <<"1", "0">>
                [] openSpaceArea = "medium" -> <<"6", "0">>
                [] openSpaceArea = "large"  -> <<"1", "5", "0">>
                [] OTHER -> <<"0">>
      ]_vars

\* C13: a submission that passes validation issues exactly one POST to
\* /submit_form; its fields are exactly the twelve of the claim, and user_lat
\* and user_lon are the values the two fields hold when submitData is called.
C13_OnePostWithFixedFields ==
    [][ event'.op = "submitData" =>
          IF FirstEmptyField = ""
          THEN /\ Len(posts') = Len(posts) + 1
               /\ SubSeq(posts', 1, Len(posts)) = posts
               /\ posts'[Len(posts')].method = "POST"
               /\ posts'[Len(posts')].action = "/submit_form"
               /\ DOMAIN posts'[Len(posts')].data =
                     {"name", "location_name", "user_lat", "user_lon", "roof_type",
                      "household_size", "rooftop_area", "open_space_area",
                      "property_type", "existing_water_sources",
                      "budget_preference", "intended_use"}
               /\ posts'[Len(posts')].data.user_lat = latitude
               /\ posts'[Len(posts')].data.user_lon = longitude
          ELSE posts' = posts
      ]_vars

\* C13 witness: a form was submitted while the latitude field held 91, which
\* the marker never followed; the POST carries 91.
C13_Witness ==
    /\ event.op = "submitData"
    /\ Len(posts) = 1
    /\ latitude = <<"9", "1">>
    /\ posts[1].data.user_lat = <<"9", "1">>
    /\ posts[1].data.existing_water_sources = "borewell,municipal"
    /\ posts[1].data.household_size = <<"3">>

\* The tests of C14 on the numbers the two fields parse to.
BothNumbers(lat, lng) == lat # NaN /\ lng # NaN

InRange(lat, lng) ==
    /\ -90000000 <= lat.v /\ lat.v <= 90000000
    /\ -180000000 <= lng.v /\ lng.v <= 180000000

\* C14: a text input on a coordinate field moves the marker to the parsed
\* pair when both fields parse to numbers in range, and schedules the lookup;
\* any other input leaves the marker where it was, schedules nothing and
\* issues no call.
C14_TextInputNeedsValidPair ==
    [][ event'.op \in TextSources =>
          \E lat \in {parseFloat(latitude')}, lng \in {parseFloat(longitude')} :
              IF BothNumbers(lat, lng) /\ InRange(lat, lng)
              THEN /\ marker' = [lat |-> lat.v, lng |-> lng.v]
                   /\ geoTimeout' = debounce(marker', GeoDelay)
              ELSE /\ marker' = marker
                   /\ geoTimeout' = geoTimeout
                   /\ reverseReqs' = reverseReqs
      ]_vars

\* C14 witness: with the marker moved away from the start and no timer
\* pending, 181 was typed as longitude beside a latitude on the limit: the
\* marker stayed and nothing was scheduled.
C14_Witness ==
    /\ event.op = "LongitudeInput"
    /\ latitude = <<"-", "9", "0">>
    /\ longitude = <<"1", "8", "1">>
    /\ marker = PointB
    /\ ~geoTimeout.set

\* C15: for a run of #address input events, each less than 300 ms after the
\* one before, the search handler runs once: 300 ms after the last event and
\* not before, with the text of the last event, and time does not pass that
\* point without it; the run issues at most one forward-search fetch.
C15_OneSearchPerInputRun ==
    [][ /\ event'.op = "SearchTimerFire" =>
              /\ inputBurst.since = SearchDelay
              /\ event'.text = address
              /\ inputBurst'.runs = 1
              /\ inputBurst'.calls <= 1
        /\ event'.op = "Tick" /\ inputBurst.inputs > 0 /\ inputBurst.runs = 0 =>
              inputBurst.since < SearchDelay
      ]_vars

\* C15 witness: after a run of two or more input events the handler has run
\* once, with "pune", and issued its one fetch.
C15_Witness ==
    /\ event.op = "SearchTimerFire"
    /\ event.text = "pune"
    /\ inputBurst.inputs = MaxBurstInputs
    /\ inputBurst.runs = 1
    /\ inputBurst.calls = 1
    /\ Len(searchReqs) >= 1

\* C16: when a forward-search call fails, the entries of the suggestion list
\* and its visibility are what they were, no alert is shown, and neither the
\* marker nor any field changes.
C16_FailedSearchUpdatesNothing ==
    [][ (event'.op = "SearchResponse" /\ event'.outcome = "error") =>
          /\ UNCHANGED listVars
          /\ alerts' = <<>>
          /\ UNCHANGED <<coordVars, addrVars>>
      ]_vars

\* C16 witness: a search failed after a suggestion had been selected; the
\* list is still hidden and still holds its entries.
C16_Witness ==
    /\ event.op = "SearchResponse"
    /\ event.outcome = "error"
    /\ suggestionsHidden
    /\ suggestions = SearchFeatures("pune")
    /\ alerts = <<>>

\* The entries of a sequence.
Entries(q) == { q[k] : k \in 1..Len(q) }

\* C17: the suggestion list never holds more than 5 entries, whatever the
\* response holds, and after a response was applied it holds entries of that
\* response only; no other handler adds entries.
C17_AtMostFiveOfLastResponse ==
    [][ /\ Len(suggestions') <= SuggestionLimit
        /\ IF event'.op = "SearchResponse" /\ event'.outcome # "error"
           THEN Entries(suggestions') \subseteq
                   Entries(SearchData(event'.text, event'.outcome).features)
           ELSE suggestions' = suggestions
      ]_vars

\* C18: a list hidden by a selection or by a search with a short text becomes
\* visible again only through a response with results to a search for an
\* input made after the hiding; a response to a search already in flight at
\* the hiding never shows it.
C18_HiddenUntilLaterSearch ==
    [][ (hideWatch.watching /\ suggestionsHidden /\ ~suggestionsHidden') =>
          /\ event'.op = "SearchResponse"
          /\ event'.index > hideWatch.stale
          /\ suggestions' # <<>>
      ]_vars

\* C19: a submitData that passes validation disables the button and a failed
\* one leaves the button as it was; no step of the page enables a disabled
\* button; so at most one POST is ever issued.
C19_ButtonDisabledForGood ==
    [][ /\ event'.op = "submitData" =>
              IF FirstEmptyField = "" THEN submitBtn'.disabled
              ELSE submitBtn' = submitBtn
        /\ submitBtn.disabled => submitBtn'.disabled
        /\ Len(posts') <= 1
      ]_vars

\* C19 witness: the form was submitted, the page has taken a later step, and
\* the button is still disabled with the one POST issued.
C19_Witness ==
    /\ event.op \in {"previousSection", "FullNameInput", "LatitudeInput"}
    /\ submitBtn.disabled
    /\ Len(posts) = 1

\* C20: once the consent page is initialised, and after every change of its
\* two consent boxes, the proceed button is enabled exactly when both boxes
\* are checked.
C20_ProceedNeedsBothConsents ==
    (consentReady /\ dataConsent.present /\ termsConsent.present /\ proceedBtn.present)
        => (~proceedBtn.disabled <=> (dataConsent.checked /\ termsConsent.checked))

\* C20 witness: after initialisation the data-consent box was unchecked
\* beside a checked terms box, and the button is disabled.
C20_Witness ==
    /\ consentReady
    /\ event.op = "DataConsentChange"
    /\ proceedBtn.present /\ proceedBtn.disabled
    /\ dataConsent.present /\ ~dataConsent.checked
    /\ termsConsent.present /\ termsConsent.checked

====
